---------------------------- MODULE Spec2Model ----------------------------
(***************************************************************************)
(* Model of pressure/layout.py: the box model (LayoutChild, Layout) and    *)
(* the three packing strategies align_horizontal, align_vertical and       *)
(* optimize.                                                               *)
(*                                                                         *)
(* Numbers.  The module is Python 2 code (xrange, line 264).  Element      *)
(* sizes and paddings are modelled as Python 2 ints, so `padding/2` is     *)
(* floor division.  Every box's y starts as the float 0.0 and becomes an   *)
(* int or a float with what is assigned to it, and a Layout's height       *)
(* reads back as an int or as an (integer valued) float accordingly; the   *)
(* model tracks that in the field yf, because `total_height/num_col` is    *)
(* floor division on ints and true division as soon as one child's height  *)
(* is a float.  Widths and x never reach a division.  The factor 1.05 and  *)
(* the golden ratio are compared exactly (21/20 and (1+sqrt 5)/2); at the  *)
(* magnitudes explored the float comparison agrees.                        *)
(***************************************************************************)
EXTENDS Integers, Sequences, FiniteSets

VARIABLES
    layout,   \* the root Layout object (a record, children nested inside)
    op,       \* the operation that was called last
    ret,      \* what that operation returned (<<width, height>>), or <<>>
    cols      \* optimize's local `cols` as committed by its last call:
              \* a sequence of columns, each a sequence of child positions

vars == <<layout, op, ret, cols>>

---------------------------------------------------------------------------
(* Bounds of the exploration *)

MaxChildren == 3      \* children the root layout may hold

---------------------------------------------------------------------------
(* Program constants *)

DefaultPadding == 5   \* padding_horizontal=5, padding_vertical=5; padding

HORIZONTAL == 1
VERTICAL == 2
OPTIMIZED == 3

\* A ratio is (n + s*sqrt(5)) / d.  CONST_PHI = (1+5**0.5)/2.0
CONST_PHI == [n |-> 1, d |-> 2, s |-> 1]

---------------------------------------------------------------------------
(* Arithmetic helpers *)

MaxOf(S) == CHOOSE m \in S : \A n \in S : n <= m

Max2(a, b) == IF a >= b THEN a ELSE b

\* Python 2: int / 2
Half(p) == p \div 2

RECURSIVE SeqSum(_)
SeqSum(s) == IF s = <<>> THEN 0 ELSE Head(s) + SeqSum(Tail(s))

Range(s) == {s[i] : i \in DOMAIN s}

---------------------------------------------------------------------------
(* LayoutChild: the leaf box *)

IsLeaf(b) == b.kind = "leaf"

\* LayoutChild.__init__(element, padding_horizontal, padding_vertical) with
\* element.width = w and element.height = h (kept as ew, eh: self.element);
\* id stands for the identity of the new object
NewLeaf(id, w, h, padh, padv) ==
    [kind |-> "leaf", id |-> id, ew |-> w, eh |-> h,
     x |-> 0, y |-> 0, yf |-> TRUE,
     width |-> w + padh, height |-> h + padv, ph |-> padh, pv |-> padv]

\* LayoutChild.box()
Box(b) == <<b.x, b.y, b.width, b.height>>

---------------------------------------------------------------------------
(* Attribute access on a box that is a leaf or a Layout *)

RECURSIVE GetWidth(_)
\* Layout.width (getter); a leaf's stored width
GetWidth(b) ==
    IF IsLeaf(b) THEN b.width
    ELSE IF b.children = <<>> THEN 0
    ELSE MaxOf({GetWidth(b.children[i]) + b.children[i].x
                  + Half(b.children[i].ph) : i \in DOMAIN b.children})
         - b.x + b.ph

RECURSIVE GetHeight(_)
\* Layout.height (getter); a leaf's stored height
GetHeight(b) ==
    IF IsLeaf(b) THEN b.height
    ELSE IF b.children = <<>> THEN 0
    ELSE MaxOf({GetHeight(b.children[i]) + b.children[i].y
                  + Half(b.children[i].pv) : i \in DOMAIN b.children})
         - b.y + b.pv

RECURSIVE HeightIsFloat(_)
\* whether Layout.height (getter) returns a float: max() returns the first
\* of the largest items, and self.y is subtracted from it
HeightIsFloat(b) ==
    IF IsLeaf(b) THEN FALSE
    ELSE IF b.children = <<>> THEN FALSE
    ELSE LET kids == b.children
             Val(i) == GetHeight(kids[i]) + kids[i].y + Half(kids[i].pv)
             m == MaxOf({Val(i) : i \in DOMAIN kids})
             first == CHOOSE i \in DOMAIN kids :
                         Val(i) = m /\ \A j \in 1..(i - 1) : Val(j) # m
         IN  HeightIsFloat(kids[first]) \/ kids[first].yf \/ b.yf

\* a setter that stores the value and does not move the children
SetXBad(b, value) == [b EXCEPT !.x = value]

RECURSIVE SetX(_, _)
\* Layout.x (setter); a leaf's plain attribute
SetX(b, value) ==
    IF IsLeaf(b) THEN [b EXCEPT !.x = value]
    ELSE LET delta == value - b.x
         IN  [b EXCEPT !.x = value,
                       !.children = [i \in DOMAIN b.children |->
                           SetX(b.children[i], b.children[i].x + delta)]]

RECURSIVE SetY(_, _, _)
\* Layout.y (setter); a leaf's plain attribute.  isFloat: value is a float
SetY(b, value, isFloat) ==
    IF IsLeaf(b) THEN [b EXCEPT !.y = value, !.yf = isFloat]
    ELSE LET delta == value - b.y
             deltaIsFloat == isFloat \/ b.yf
         IN  IF delta = 0 THEN [b EXCEPT !.y = value, !.yf = isFloat]
             ELSE [b EXCEPT !.y = value, !.yf = isFloat,
                       !.children = [i \in DOMAIN b.children |->
                           SetY(b.children[i], b.children[i].y + delta,
                                b.children[i].yf \/ deltaIsFloat)]]

\* Layout.width (setter): moves the last child; a leaf's plain attribute
SetWidth(b, value) ==
    IF IsLeaf(b) THEN [b EXCEPT !.width = value]
    ELSE IF b.children = <<>> THEN b
    ELSE LET n == Len(b.children)
             child == b.children[n]
         IN  [b EXCEPT !.children[n] =
                 SetX(child, b.x + value - GetWidth(child) - b.ph)]

\* Layout.height (setter): pass; a leaf's plain attribute
SetHeight(b, value) ==
    IF IsLeaf(b) THEN [b EXCEPT !.height = value] ELSE b

\* LayoutChild.padding_horizontal (setter), inherited by Layout
SetPaddingHorizontal(b, value) ==
    IF value - b.ph = 0 THEN b
    ELSE [SetWidth(b, GetWidth(b) + value) EXCEPT !.ph = value]

\* LayoutChild.padding_vertical (setter), inherited by Layout
SetPaddingVertical(b, value) ==
    IF value - b.pv = 0 THEN b
    ELSE [SetHeight(b, GetHeight(b) + value) EXCEPT !.pv = value]

---------------------------------------------------------------------------
(* Layout: align_horizontal and align_vertical *)

RECURSIVE AlignHorizontalLoop(_, _, _, _)
\* the for loop of align_horizontal from child i on: <<children, width, height>>
AlignHorizontalLoop(kids, i, width, height) ==
    IF i > Len(kids) THEN <<kids, width, height>>
    ELSE LET child == SetY(SetX(kids[i], width), 0, FALSE)
         IN  AlignHorizontalLoop([kids EXCEPT ![i] = child], i + 1,
                                 width + GetWidth(child),
                                 Max2(height, GetHeight(child)))

\* Layout.align_horizontal: [layout, ret]
AlignHorizontal(L) ==
    LET r == AlignHorizontalLoop(L.children, 1, 0, 0)
        placed == [L EXCEPT !.children = r[1]]
    IN  [layout |-> SetHeight(SetWidth(placed, r[2]), r[3]),
         ret |-> <<r[2], r[3]>>]

RECURSIVE AlignVerticalLoop(_, _, _, _, _)
\* the for loop of align_vertical from child i on: <<children, width, height>>
\* (isFloat: height is a float)
AlignVerticalLoop(kids, i, width, height, isFloat) ==
    IF i > Len(kids) THEN <<kids, width, height>>
    ELSE LET child == SetY(SetX(kids[i], 0), height, isFloat)
         IN  AlignVerticalLoop([kids EXCEPT ![i] = child], i + 1,
                               Max2(width, GetWidth(child)),
                               height + GetHeight(child),
                               isFloat \/ HeightIsFloat(child))

\* Layout.align_vertical: [layout, ret]
AlignVertical(L) ==
    LET r == AlignVerticalLoop(L.children, 1, 0, 0, FALSE)
        placed == [L EXCEPT !.children = r[1]]
    IN  [layout |-> SetHeight(SetWidth(placed, r[2]), r[3]),
         ret |-> <<r[2], r[3]>>]

---------------------------------------------------------------------------
(* Layout.optimize *)

\* sorted(self.children, key=attrgetter('width'), reverse=True) as the
\* sequence of child positions: a stable sort, so children of equal width
\* keep their order
SortedByWidth(kids) ==
    LET Before(i, j) == \/ GetWidth(kids[i]) > GetWidth(kids[j])
                        \/ GetWidth(kids[i]) = GetWidth(kids[j]) /\ i < j
        Rank(i) == Cardinality({j \in DOMAIN kids : Before(j, i)}) + 1
    IN  [r \in DOMAIN kids |-> CHOOSE i \in DOMAIN kids : Rank(i) = r]

\* sum(c.height for c in col)
ColHeight(kids, col) ==
    SeqSum([j \in DOMAIN col |-> GetHeight(kids[col[j]])])

\* max(c.width for c in col)
ColWidth(kids, col) ==
    MaxOf({GetWidth(kids[col[j]]) : j \in DOMAIN col})

\* sum(...) + child.height < total_height/num_col*1.05
Fits(sum, h, total, numCol, isFloat) ==
    IF isFloat THEN 20 * numCol * (sum + h) < 21 * total
    ELSE 20 * (sum + h) < 21 * (total \div numCol)

RECURSIVE FirstFit(_, _, _, _, _, _, _)
\* `for col in cols` from column j on: the cols after the child is placed
FirstFit(kids, colsSoFar, j, c, total, numCol, isFloat) ==
    IF j > Len(colsSoFar) THEN Append(colsSoFar, <<c>>)
    ELSE IF Fits(ColHeight(kids, colsSoFar[j]), GetHeight(kids[c]),
                 total, numCol, isFloat)
         THEN [colsSoFar EXCEPT ![j] = Append(@, c)]
         ELSE FirstFit(kids, colsSoFar, j + 1, c, total, numCol, isFloat)

RECURSIVE Partition(_, _, _, _, _, _, _)
\* `for cidx, child in enumerate(children)` from sorted position i on
Partition(kids, order, i, colsSoFar, total, numCol, isFloat) ==
    IF i > Len(order) THEN colsSoFar
    ELSE Partition(kids, order, i + 1,
                   FirstFit(kids, colsSoFar, 1, order[i], total, numCol,
                            isFloat),
                   total, numCol, isFloat)

\* width and height of a partition (lines 276-277)
PartWidth(kids, part) ==
    SeqSum([j \in DOMAIN part |-> ColWidth(kids, part[j])])

PartHeight(kids, part) ==
    MaxOf({ColHeight(kids, part[j]) : j \in DOMAIN part})

\* a score with the penalty on the width: w*ratio + h
ScoreLessBad(w1, h1, w2, h2, ratio) ==
    LET a == (h1 - h2) * ratio.d + (w1 - w2) * ratio.n
        b == (w2 - w1) * ratio.s
    IN  IF b = 0 THEN a < 0
        ELSE IF b > 0 THEN a < 0 \/ a * a < 5 * b * b
        ELSE a < 0 /\ a * a > 5 * b * b

\* w1 + h1*ratio < w2 + h2*ratio, for ratio = (n + s*sqrt 5)/d
ScoreLess(w1, h1, w2, h2, ratio) ==
    LET a == (w1 - w2) * ratio.d + (h1 - h2) * ratio.n
        b == (h2 - h1) * ratio.s
    IN  IF b = 0 THEN a < 0
        ELSE IF b > 0 THEN a < 0 \/ a * a < 5 * b * b
        ELSE a < 0 /\ a * a > 5 * b * b

\* a loop that stops one column count short: xrange(1, len(children))
LastNumColBad(n) == n - 1

\* the last column count the loop tries: xrange(1, len(children)+1)
LastNumCol(n) == n

RECURSIVE Search(_, _, _, _, _, _, _, _)
\* `for num_col in xrange(...)` from numCol on; best is [part, w, h, found],
\* found = FALSE standing for best_score = 1e100
Search(kids, order, numCol, best, total, last, isFloat, ratio) ==
    IF numCol > last THEN best
    ELSE LET part == Partition(kids, order, 1, <<>>, total, numCol, isFloat)
             w == PartWidth(kids, part)
             h == PartHeight(kids, part)
             better == \/ ~best.found
                       \/ ScoreLess(w, h, best.w, best.h, ratio)
         IN  Search(kids, order, numCol + 1,
                    IF better
                    THEN [part |-> part, w |-> w, h |-> h, found |-> TRUE]
                    ELSE best,
                    total, last, isFloat, ratio)

\* a column left in the order of the width sort
SortByIndexBad(col) == col

\* col.sort(key=lambda c: self.children.index(c))
SortByIndex(col) ==
    LET Rank(c) == Cardinality({e \in Range(col) : e < c}) + 1
    IN  [r \in DOMAIN col |-> CHOOSE c \in Range(col) : Rank(c) = r]

RECURSIVE CommitCol(_, _, _, _, _, _, _)
\* `for child in col` from position j on: <<children, y>>
\* (isFloat: y is a float)
CommitCol(kids, col, j, x, y, isFloat, colWidth) ==
    IF j > Len(col) THEN <<kids, y>>
    ELSE LET c == col[j]
             moved == SetY(SetX(kids[c], x + Half(kids[c].ph)),
                           y + Half(kids[c].pv), isFloat)
             child == SetWidth(moved, colWidth)
         IN  CommitCol([kids EXCEPT ![c] = child], col, j + 1, x,
                       y + GetHeight(child),
                       isFloat \/ HeightIsFloat(child), colWidth)

RECURSIVE Commit(_, _, _, _, _, _, _, _)
\* `for col in cols` from column j on: [children, x, colWidth, maxHeight]
Commit(kids, part, j, x, colWidth, maxHeight, padh, padv) ==
    IF j > Len(part) THEN
        [children |-> kids, x |-> x, colWidth |-> colWidth,
         maxHeight |-> maxHeight]
    ELSE LET col == part[j]
             x2 == x + colWidth
             w2 == IF col = <<>> THEN 0 ELSE ColWidth(kids, col)
             r == CommitCol(kids, col, 1, x2, Half(padv), FALSE, w2)
         IN  Commit(r[1], part, j + 1, x2, w2, Max2(maxHeight, r[2]),
                    padh, padv)

\* Layout.optimize: [layout, ret, cols]
Optimize(L) ==
    LET kids == L.children
        order == SortedByWidth(kids)
        total == SeqSum([i \in DOMAIN kids |-> GetHeight(kids[i])])
        isFloat == \E i \in DOMAIN kids : HeightIsFloat(kids[i])
        first == [part |-> <<order>>, w |-> 0, h |-> 0, found |-> FALSE]
        best == Search(kids, order, 1, first, total, LastNumCol(Len(kids)),
                       isFloat, L.ratio)
        part == [j \in DOMAIN best.part |-> SortByIndex(best.part[j])]
        c == Commit(kids, part, 1, Half(L.ph), 0, 0, L.ph, L.pv)
    IN  [layout |-> [L EXCEPT !.children = c.children],
         ret |-> <<c.x + c.colWidth + Half(L.ph),
                   c.maxHeight + Half(L.pv)>>,
         cols |-> part]

---------------------------------------------------------------------------
(* Layout: construction and add_children *)

\* Layout.__init__(*children, ratio, align, padding); the children are
\* already wrapped (self.child); id stands for the identity of the object
NewLayout(id, children, ratio, align, padding) ==
    LET fresh == [kind |-> "layout", id |-> id, x |-> 0, y |-> 0,
                  yf |-> TRUE,
                  ph |-> DefaultPadding, pv |-> DefaultPadding,
                  ratio |-> ratio, align |-> align, padding |-> padding,
                  children |-> children]
        \* LayoutChild.__init__(self, None, width=0, height=0)
        w0 == SetHeight(SetWidth(fresh, 0), 0)
        w1 == SetWidth(w0, GetWidth(w0) + w0.ph)
        base == SetHeight(w1, GetHeight(w1) + w1.pv)
    IN  IF align = HORIZONTAL THEN AlignHorizontal(base).layout
        ELSE IF align = VERTICAL THEN AlignVertical(base).layout
        ELSE IF align = OPTIMIZED THEN Optimize(base).layout
        ELSE base

\* Layout.child(element, padding_horizontal=.., padding_vertical=..): an
\* element is <<w, h>>, or <<w, h, ph, pv>> when it is a LayoutChild already
Child(id, element, padding) ==
    IF Len(element) = 4
    THEN NewLeaf(id, element[1], element[2], element[3], element[4])
    ELSE NewLeaf(id, element[1], element[2], padding, padding)

\* Layout.add_children(*elements, align=align)
AddChildren(L, elements, align) ==
    LET id == Len(L.children) + 1
    IN  IF elements = <<>> THEN L
        ELSE IF Len(elements) = 1
        THEN [L EXCEPT !.children =
                 Append(@, Child(id, elements[1], L.padding))]
        ELSE [L EXCEPT !.children =
                 Append(@, NewLayout(id,
                     [i \in DOMAIN elements |->
                         Child(i, elements[i], L.padding)],
                     L.ratio, align, L.padding))]

---------------------------------------------------------------------------
(* The flat specification: a root Layout of leaves *)

\* element sizes <<width, height>> the callers supply
Elements == {<<10, 10>>, <<20, 40>>, <<20, 10>>}

\* LayoutChild objects <<width, height, padding_horizontal,
\* padding_vertical>> the callers wrap themselves before adding them
Wrapped == {<<10, 0, 0, 0>>, <<20, 10, 0, 0>>}

\* the ratios a layout is constructed with: the default and ratio=1
Ratios == {CONST_PHI, [n |-> 1, d |-> 1, s |-> 0]}

\* Layout(ratio=ratio)
Init ==
    /\ \E ratio \in Ratios :
          layout = NewLayout(0, <<>>, ratio, OPTIMIZED, DefaultPadding)
    /\ op = "init"
    /\ ret = <<>>
    /\ cols = <<>>

\* layout.add_children(element) with one element or one LayoutChild
AddChild ==
    /\ Len(layout.children) < MaxChildren
    /\ \E e \in Elements \cup Wrapped :
          layout' = AddChildren(layout, <<e>>, HORIZONTAL)
    /\ op' = "add_children"
    /\ ret' = <<>>
    /\ cols' = <<>>

\* layout.align_horizontal()
DoAlignHorizontal ==
    /\ LET r == AlignHorizontal(layout)
       IN  layout' = r.layout /\ ret' = r.ret
    /\ op' = "align_horizontal"
    /\ cols' = <<>>

\* layout.align_vertical()
DoAlignVertical ==
    /\ LET r == AlignVertical(layout)
       IN  layout' = r.layout /\ ret' = r.ret
    /\ op' = "align_vertical"
    /\ cols' = <<>>

\* layout.optimize()
DoOptimize ==
    /\ LET r == Optimize(layout)
       IN  layout' = r.layout /\ ret' = r.ret /\ cols' = r.cols
    /\ op' = "optimize"

Next ==
    \/ AddChild
    \/ DoAlignHorizontal
    \/ DoAlignVertical
    \/ DoOptimize

Spec == Init /\ [][Next]_vars

---------------------------------------------------------------------------
(* Claims checked under Spec *)

Kids == layout.children

N == Len(layout.children)

\* two boxes <<x, y, width, height>> overlap with positive area
Overlap(a, b) ==
    /\ Max2(a[1], b[1]) < (IF a[1] + a[3] <= b[1] + b[3]
                           THEN a[1] + a[3] ELSE b[1] + b[3])
    /\ Max2(a[2], b[2]) < (IF a[2] + a[4] <= b[2] + b[4]
                           THEN a[2] + a[4] ELSE b[2] + b[4])

C2_HorizontalPositions ==
    (op = "align_horizontal" /\ N >= 1) =>
        \A i \in DOMAIN Kids :
            /\ Kids[i].y = 0
            /\ Kids[i].x = SeqSum([j \in 1..(i - 1) |-> GetWidth(Kids[j])])

\* C3: after align_vertical() the layout's width reads back as the largest
\* child width and its height as the sum of the child heights (0 and 0 when
\* empty), the pair the call returned.
C3_VerticalSize ==
    op = "align_vertical" =>
        /\ GetWidth(layout) =
              MaxOf({0} \cup {GetWidth(Kids[i]) : i \in DOMAIN Kids})
        /\ GetHeight(layout) =
              SeqSum([i \in DOMAIN Kids |-> GetHeight(Kids[i])])
        /\ ret = <<GetWidth(layout), GetHeight(layout)>>

\* C4: optimize() on a layout with no children returns (0, 0).
C4_EmptyReturnsZero ==
    (op = "optimize" /\ N = 0) => ret = <<0, 0>>

\* for each column count in 1..n, the greedy first-fit partition of L's
\* children in width-descending order under the cap total_height/k*1.05
GreedyParts(L) ==
    LET order == SortedByWidth(L.children)
        total == SeqSum([i \in DOMAIN L.children |->
                            GetHeight(L.children[i])])
        isFloat == \E i \in DOMAIN L.children : HeightIsFloat(L.children[i])
    IN  [c \in 1..Len(L.children) |->
            Partition(L.children, order, 1, <<>>, total, c, isFloat)]

\* k is the smallest column count whose score is minimal, the scores of
\* the column counts being w[c] + ratio * h[c]
SmallestBest(w, h, ratio, k) ==
    /\ \A c \in DOMAIN w : ~ScoreLess(w[c], h[c], w[k], h[k], ratio)
    /\ \A c \in 1..(k - 1) : ScoreLess(w[k], h[k], w[c], h[c], ratio)

\* the columns a box sequence shows: children grouped by their x less their
\* own half padding, each group top to bottom
SameColumn(kids, i, j) ==
    kids[i].x - Half(kids[i].ph) = kids[j].x - Half(kids[j].ph)

\* C6: for N >= 1 children, optimize() commits the greedy first-fit
\* partition of the smallest k in 1..N whose score width + ratio * height is
\* minimal among the partitions of all k in 1..N.
C6_CommitsBestPartition ==
    [][(op' = "optimize" /\ N >= 1) =>
          LET part == GreedyParts(layout)
              w == [c \in 1..N |-> PartWidth(Kids, part[c])]
              h == [c \in 1..N |-> PartHeight(Kids, part[c])]
          IN  \E k \in 1..N :
              /\ SmallestBest(w, h, layout.ratio, k)
              /\ cols' = [j \in DOMAIN part[k] |-> SortByIndex(part[k][j])]
              /\ \A i \in 1..N : \E j \in DOMAIN cols' :
                     i \in Range(cols'[j])
              /\ \A j \in DOMAIN cols' : \A a, b \in Range(cols'[j]) :
                     SameColumn(layout'.children, a, b)
              /\ \A j1, j2 \in DOMAIN cols' :
                     j1 < j2 =>
                        \A a \in Range(cols'[j1]), b \in Range(cols'[j2]) :
                            layout'.children[a].x - Half(layout'.children[a].ph)
                              <= layout'.children[b].x
                                   - Half(layout'.children[b].ph)]_vars

\* a state optimize() left with more than one column, chosen at k >= 2
C6_Witness ==
    /\ op = "optimize"
    /\ N >= 3
    /\ Len(cols) = 2

\* three leaves of size (10, 10) with the default padding
ThreeSquares(L) ==
    /\ Len(L.children) = 3
    /\ \A i \in 1..3 :
          /\ L.children[i].ew = 10 /\ L.children[i].eh = 10
          /\ L.children[i].ph = DefaultPadding
          /\ L.children[i].pv = DefaultPadding
          /\ L.children[i].width = 10 + DefaultPadding
          /\ L.children[i].height = 10 + DefaultPadding
    /\ L.ratio = CONST_PHI

\* C7 as stated: for three (10, 10) leaves, default ratio and padding,
\* optimize() chooses k = 1: one column (same x, distinct y), and returns one
\* child width by three child heights plus padding.
C7_SingleColumn ==
    [][(op' = "optimize" /\ ThreeSquares(layout)) =>
          /\ cols' = <<<<1, 2, 3>>>>
          /\ \A i, j \in 1..3 :
                /\ layout'.children[i].x = layout'.children[j].x
                /\ i # j => layout'.children[i].y # layout'.children[j].y
          /\ ret' = <<15 + 2 * Half(layout.ph), 45 + 2 * Half(layout.pv)>>]_vars

\* C7 amended: for three (10, 10) leaves, default ratio and padding,
\* optimize() commits three columns of one child each (the partition of
\* k = 2): same y, x = 4, 19, 34, and returns (49, 19): three child widths
\* by one child height, plus twice half the layout's padding of 5.
C7_ThreeColumns ==
    [][(op' = "optimize" /\ ThreeSquares(layout)) =>
          /\ cols' = <<<<1>>, <<2>>, <<3>>>>
          /\ \A i \in 1..3 :
                /\ layout'.children[i].y = 4
                /\ layout'.children[i].x = 4 + 15 * (i - 1)
                /\ layout'.children[i].width = 15
                /\ layout'.children[i].height = 15
          /\ ret' = <<49, 19>>]_vars

C7_Witness ==
    /\ op = "optimize"
    /\ ThreeSquares(layout)
    /\ ret = <<49, 19>>

\* C8 as stated: after optimize(), of two children in the same column the
\* one inserted earlier has the smaller y, whatever their widths; and the
\* children sequence is in the same order as before the call.
C8_StrictlyAbove ==
    [][op' = "optimize" =>
          /\ \A c \in DOMAIN cols' : \A a, b \in DOMAIN cols'[c] :
                a < b =>
                   /\ cols'[c][a] < cols'[c][b]
                   /\ layout'.children[cols'[c][a]].y
                        < layout'.children[cols'[c][b]].y
          /\ Len(layout'.children) = N
          /\ \A i \in 1..N : layout'.children[i].id = Kids[i].id]_vars

\* C8 amended: after optimize(), of two children in the same column the
\* one inserted earlier has a y that is not larger, and a smaller y when
\* its own height is positive, whatever their widths; and the children
\* sequence is in the same order as before the call.
C8_InsertionOrderInColumn ==
    [][op' = "optimize" =>
          /\ \A c \in DOMAIN cols' : \A a, b \in DOMAIN cols'[c] :
                a < b =>
                   /\ cols'[c][a] < cols'[c][b]
                   /\ layout'.children[cols'[c][a]].y
                        <= layout'.children[cols'[c][b]].y
                   /\ GetHeight(layout'.children[cols'[c][a]]) > 0 =>
                         layout'.children[cols'[c][a]].y
                            < layout'.children[cols'[c][b]].y
                   /\ SameColumn(layout'.children, cols'[c][a], cols'[c][b])
          /\ Len(layout'.children) = N
          /\ \A i \in 1..N : layout'.children[i].id = Kids[i].id]_vars

\* a column holding a child above a wider one inserted after it
C8_Witness ==
    /\ op = "optimize"
    /\ \E c \in DOMAIN cols : \E a, b \in DOMAIN cols[c] :
          /\ a < b
          /\ Kids[cols[c][a]].ew + Kids[cols[c][a]].ph
               < Kids[cols[c][b]].ew + Kids[cols[c][b]].ph
          /\ Kids[cols[c][a]].y < Kids[cols[c][b]].y

\* C10: a second optimize() right after the first leaves every child's box,
\* the columns and the returned size as they were.
C10_Idempotent ==
    [][(op = "optimize" /\ op' = "optimize") =>
          /\ \A i \in 1..N : Box(layout'.children[i]) = Box(Kids[i])
          /\ cols' = cols
          /\ ret' = ret]_vars

---------------------------------------------------------------------------
(* The box specification: the padding setters of a child of a layout *)

MaxSize == 40         \* widths and heights explored by the padding setters

\* values assigned to padding_horizontal and padding_vertical
PadValues == {0, 3, 5}

\* Layout(element) with one element or one LayoutChild
InitBox ==
    /\ \E e \in Elements \cup Wrapped :
          layout = NewLayout(0, <<Child(1, e, DefaultPadding)>>, CONST_PHI,
                             OPTIMIZED, DefaultPadding)
    /\ op = "init"
    /\ ret = <<>>
    /\ cols = <<>>

\* layout.children[0].padding_horizontal = value
SetChildPaddingHorizontal ==
    /\ \E value \in PadValues :
          /\ GetWidth(layout.children[1]) + value <= MaxSize
          /\ layout' = [layout EXCEPT !.children[1] =
                           SetPaddingHorizontal(@, value)]
    /\ op' = "set_padding_horizontal"
    /\ ret' = <<>>
    /\ cols' = <<>>

\* layout.children[0].padding_vertical = value
SetChildPaddingVertical ==
    /\ \E value \in PadValues :
          /\ GetHeight(layout.children[1]) + value <= MaxSize
          /\ layout' = [layout EXCEPT !.children[1] =
                           SetPaddingVertical(@, value)]
    /\ op' = "set_padding_vertical"
    /\ ret' = <<>>
    /\ cols' = <<>>

NextBox ==
    \/ SetChildPaddingHorizontal
    \/ SetChildPaddingVertical

SpecBox == InitBox /\ [][NextBox]_vars

\* C5: assigning padding_horizontal = p2 to a leaf whose padding is p1
\* changes its width by exactly p2 - p1, so width - padding_horizontal stays
\* the same; likewise padding_vertical and height.
C5_PaddingDelta ==
    [][/\ op' = "set_padding_horizontal" =>
             layout'.children[1].width - layout'.children[1].ph
                = Kids[1].width - Kids[1].ph
       /\ op' = "set_padding_vertical" =>
             layout'.children[1].height - layout'.children[1].pv
                = Kids[1].height - Kids[1].pv]_vars

---------------------------------------------------------------------------
(* The tree specification: nested layouts, moved by the root's x and y *)

MaxTreeChildren == 1  \* children the root layout may hold

\* optimize() widens a nested layout each time it commits it (the width it
\* assigns moves the last grandchild); the exploration stops at this width
MaxExtent == 30

TreeElements == {<<10, 10>>, <<20, 0, 0, 0>>}

\* the element groups add_children is called with
TreeGroups == {<<<<20, 0, 0, 0>>, <<10, 10>>>>}

\* values assigned to the root's x and y
Coords == {0, 3}

\* layout.add_children(element)
AddTreeChild ==
    /\ Len(layout.children) < MaxTreeChildren
    /\ \E e \in TreeElements :
          layout' = AddChildren(layout, <<e>>, HORIZONTAL)
    /\ op' = "add_children"
    /\ ret' = <<>>
    /\ cols' = <<>>

\* layout.add_children(element, element, align=align)
AddGroup ==
    /\ Len(layout.children) < MaxTreeChildren
    /\ \E g \in TreeGroups, align \in {HORIZONTAL, VERTICAL, OPTIMIZED} :
          layout' = AddChildren(layout, g, align)
    /\ op' = "add_children"
    /\ ret' = <<>>
    /\ cols' = <<>>

\* layout.x = value
SetRootX ==
    /\ \E value \in Coords : layout' = SetX(layout, value)
    /\ op' = "set_x"
    /\ ret' = <<>>
    /\ cols' = <<>>

\* layout.y = value
SetRootY ==
    /\ \E value \in Coords : layout' = SetY(layout, value, FALSE)
    /\ op' = "set_y"
    /\ ret' = <<>>
    /\ cols' = <<>>

\* layout.optimize(), while the children are narrower than MaxExtent
DoOptimizeTree ==
    /\ \A i \in DOMAIN layout.children :
          GetWidth(layout.children[i]) <= MaxExtent
    /\ DoOptimize

NextTree ==
    \/ AddTreeChild
    \/ AddGroup
    \/ SetRootX
    \/ SetRootY
    \/ DoAlignHorizontal
    \/ DoAlignVertical
    \/ DoOptimizeTree

\* Layout()
InitTree ==
    /\ layout = NewLayout(0, <<>>, CONST_PHI, OPTIMIZED, DefaultPadding)
    /\ op = "init"
    /\ ret = <<>>
    /\ cols = <<>>

SpecTree == InitTree /\ [][NextTree]_vars

RECURSIVE RelTree(_, _, _)
\* every box of the tree under b: its position relative to (ox, oy) and its
\* size
RelTree(b, ox, oy) ==
    IF IsLeaf(b) THEN <<b.x - ox, b.y - oy, b.width, b.height>>
    ELSE <<b.x - ox, b.y - oy, GetWidth(b), GetHeight(b),
           [i \in DOMAIN b.children |-> RelTree(b.children[i], ox, oy)]>>

\* C9: an assignment to the layout's x or y shifts every child and every
\* descendant by the change in the layout's coordinate (their positions
\* relative to the layout stay the same) and changes no child's and not the
\* layout's own width or height.
C9_MoveShiftsTree ==
    [][op' \in {"set_x", "set_y"} =>
          RelTree(layout', layout'.x, layout'.y)
             = RelTree(layout, layout.x, layout.y)]_vars

\* a moved root that holds a nested layout with children
C9_Witness ==
    /\ op \in {"set_x", "set_y"}
    /\ layout.x = 3
    /\ layout.y = 3
    /\ \E i \in DOMAIN Kids :
          /\ ~IsLeaf(Kids[i])
          /\ Kids[i].children # <<>>
          /\ Kids[i].x >= 3

=============================================================================
